---- MODULE Spec2Model ----
(***************************************************************************)
(* Load-test harness of the guestbook service (src/loadtest/loadtest.go): *)
(* main spawns `threads` workers (makeRequests), each runs                 *)
(* numRequests / threads iterations of a GET or POST through the          *)
(* exponential-backoff requester, hands its Stats to main over the        *)
(* buffered channel statsChan, and main merges the Stats, sorts the       *)
(* latencies and looks the percentiles up.                                *)
(*                                                                         *)
(* Durations are in milliseconds.  clock[w] is the monotonic clock as      *)
(* worker w reads it (time.Now / time.Since); the code only uses           *)
(* differences of readings, so the origin is put at the entry of the      *)
(* requester.                                                              *)
(***************************************************************************)
EXTENDS Integers, Sequences, FiniteSets, Bags, TLC

\* Bounds of the model: the flag values -n and -threads explored, and the
\* longest latency sequence handed to the percentile computation.
MaxRequests == 2
MaxThreads == 2
MaxLatencies == 5

\* Program constants.
MaxAttempts == 10
InitialBackoff == 20
MaxBackoff == 5000

Workers == 1..MaxThreads

Min(a, b) == IF a < b THEN a ELSE b

RECURSIVE Pow2(_)
Pow2(k) == IF k = 0 THEN 1 ELSE 2 * Pow2(k - 1)

RECURSIVE SumSeq(_)
SumSeq(q) == IF q = <<>> THEN 0 ELSE Head(q) + SumSeq(Tail(q))

RECURSIVE SeqToBag(_)
SeqToBag(q) ==
    IF q = <<>> THEN EmptyBag ELSE SetToBag({Head(q)}) (+) SeqToBag(Tail(q))

----------------------------------------------------------------------------
(* Data *)

\* var s Stats : the zero value of a Stats.
ZeroStats ==
    [SuccessfulGET |-> 0, SuccessfulPOST |-> 0, TotalBytesSent |-> 0,
     TotalBytesRecv |-> 0, Errors |-> 0, Latencies |-> <<>>]

\* nil, as an error or as a method not drawn.
Nil == "nil"

\* A nil *http.Response.
NilResp == [StatusCode |-> 0, Body |-> 0]

\* time.Now() as stored in a Comment: the year and the length of its
\* RFC 3339 text.  A year beyond 9999 is what makes json.Marshal fail.
Times == {[year |-> 2026, text |-> 30], [year |-> 10000, text |-> 31]}

\* var c Comment before it is built: the zero value.
NoComment == [Username |-> 0, Message |-> 0, Time |-> [year |-> 0, text |-> 0]]

\* Comment{Time: time.Now(), Username: "test", Message: comment}
NewComment(t) == [Username |-> 4, Message |-> 30, Time |-> t]

\* (variant: the error of json.Marshal dropped)
MarshalUnchecked(c) ==
    [err |-> Nil, len |-> 38 + c.Username + c.Message + c.Time.text]

\* json.Marshal(comment): the length of the encoding
\* {"username":"..","message":"..","time":".."}, or an error.
Marshal(c) ==
    IF c.Time.year > 9999
        THEN [err |-> "marshal", len |-> 0]
        ELSE [err |-> Nil,
              len |-> 38 + c.Username + c.Message + c.Time.text]

\* What the guestbook service answers, as the status and the length of the
\* body.  getCommentsHandler answers 200 with the encoded list or 500 with
\* the error text.
GetResponses == {[StatusCode |-> 200, Body |-> 5], [StatusCode |-> 500, Body |-> 20]}

\* postCommentHandler: 400 with the decoder's error text when the body is
\* not the JSON of a Comment; otherwise 201 with no body, or 500 with the
\* error text when the encoding or the store fails.
postCommentHandler(decodes) ==
    IF ~decodes
        THEN {[StatusCode |-> 400, Body |-> 25]}
        ELSE {[StatusCode |-> 201, Body |-> 0],
              [StatusCode |-> 500, Body |-> 20]}

PostResponses == postCommentHandler(TRUE) \cup postCommentHandler(FALSE)

\* The outcomes of one http.Get / http.Post: a transport error and no
\* response, or a response of the service whatever its status; dur is the
\* time the call takes.
Outcomes(m) ==
    {[err |-> "net", resp |-> NilResp, dur |-> 1]}
    \cup {[err |-> Nil, resp |-> r, dur |-> d] :
            r \in (IF m = "GET" THEN GetResponses ELSE PostResponses),
            d \in {1, 2}}

----------------------------------------------------------------------------
(* Pure steps of the code *)

Abs(a) == IF a < 0 THEN -a ELSE a

\* The quotient of Go's integer division, which truncates toward zero.
Quo(a, b) ==
    IF (a < 0) = (b < 0) THEN Abs(a) \div Abs(b) ELSE -(Abs(a) \div Abs(b))

\* requestsPerThread := numRequests / threads   (threads # 0)
RequestsPerThread(n, t) == Quo(n, t)

\* (variant: the loop test written i <= 10)
MoreAttemptsInclusive(i) == i <= MaxAttempts

\* for i := 0; i < 10; i++   in exponentialBackoffGET / exponentialBackoffPOST
MoreAttempts(i) == i < MaxAttempts

\* if err == nil { ... return resp, latency, ..., nil }
AttemptSucceeded(o) == o.err = Nil

\* (variant: start taken once, at the entry of the requester)
SinceEntry(t0, now) == now

\* latency = time.Since(start)
Since(t0, now) == now - t0

\* (variant: the cap left out)
NextBackoffUncapped(b) == b * 2

\* backoff *= 2; if backoff > 5*time.Second { backoff = 5 * time.Second }
NextBackoff(b) == IF b * 2 > MaxBackoff THEN MaxBackoff ELSE b * 2

\* (variant: the spawning loop stops one worker short)
MoreToSpawnShort(i, t) == i < t - 1

\* for i := 0; i < threads; i++ { go makeRequests(...) } : main's spawning loop
MoreToSpawn(i, t) == i < t

\* (variant: a buffer one message smaller)
CapacityShort(t) == t - 1

\* statsChan := make(chan Stats, threads) : the capacity of the buffer
Capacity(t) == t

\* (variant: one Stats, at package level, used by every worker)
StatsShared(w) == 1

\* var s Stats, a local of makeRequests: each worker's Stats is its own
StatsOf(w) == w

\* (variant: the receiving loop stops one message short)
MoreToReceiveShort(i, t) == i < t - 1

\* for i := 0; i < threads; i++ { s := <-statsChan ... } : main's receiving loop
MoreToReceive(i, t) == i < t

\* The value a requester returns: (resp, latency, requestSize, responseSize, err).
Returned(resp, latency, sent, recv, err) ==
    [resp |-> resp, latency |-> latency, bytesSent |-> sent,
     bytesRecv |-> recv, err |-> err]

\* (variant: the latency of the failed request recorded too)
CountErrorWithLatency(st) ==
    [st EXCEPT !.Errors = @ + 1, !.Latencies = Append(@, 0)]

\* The error branch of an iteration: s.Errors++; continue
CountError(st) == [st EXCEPT !.Errors = @ + 1]

\* (variant: the POST branch pasted from the GET branch, counter and all)
CountSuccessAsGET(st, m, r) ==
    [st EXCEPT !.TotalBytesSent = @ + r.bytesSent,
               !.TotalBytesRecv = @ + r.bytesRecv,
               !.Latencies = IF m = "GET" THEN Append(@, r.latency) ELSE @,
               !.SuccessfulGET = @ + 1]

\* The success branch of an iteration, after a GET or after a POST.
CountSuccess(st, m, r) ==
    [st EXCEPT !.TotalBytesSent = @ + r.bytesSent,
               !.TotalBytesRecv = @ + r.bytesRecv,
               !.Latencies = Append(@, r.latency),
               !.SuccessfulGET = IF m = "GET" THEN @ + 1 ELSE @,
               !.SuccessfulPOST = IF m = "POST" THEN @ + 1 ELSE @]

\* (variant: the error total assigned, not added to)
MergeErrorsAssigned(acc, m) ==
    [SuccessfulGET |-> acc.SuccessfulGET + m.SuccessfulGET,
     SuccessfulPOST |-> acc.SuccessfulPOST + m.SuccessfulPOST,
     TotalBytesSent |-> acc.TotalBytesSent + m.TotalBytesSent,
     TotalBytesRecv |-> acc.TotalBytesRecv + m.TotalBytesRecv,
     Errors |-> m.Errors,
     Latencies |-> acc.Latencies \o m.Latencies]

\* The body of main's receive loop: add one worker's Stats to the totals.
Merge(acc, m) ==
    [SuccessfulGET |-> acc.SuccessfulGET + m.SuccessfulGET,
     SuccessfulPOST |-> acc.SuccessfulPOST + m.SuccessfulPOST,
     TotalBytesSent |-> acc.TotalBytesSent + m.TotalBytesSent,
     TotalBytesRecv |-> acc.TotalBytesRecv + m.TotalBytesRecv,
     Errors |-> acc.Errors + m.Errors,
     Latencies |-> acc.Latencies \o m.Latencies]

\* sort.Slice(slice, less) with less(i, j) = slice[i] < slice[j]: insertion of
\* each element in turn after the elements that are not greater.
RECURSIVE InsertSorted(_, _)
InsertSorted(x, q) ==
    IF q = <<>> THEN <<x>>
    ELSE IF x < Head(q) THEN <<x>> \o q
    ELSE <<Head(q)>> \o InsertSorted(x, Tail(q))

\* (variant: the slice left as it is)
unsortedSlice(slice) == slice

RECURSIVE sortDurationSlice(_)
sortDurationSlice(slice) ==
    IF slice = <<>> THEN <<>>
    ELSE InsertSorted(slice[Len(slice)],
                      sortDurationSlice(SubSeq(slice, 1, Len(slice) - 1)))

\* (variant: the list ending with the maximum)
percentilesWithMax == <<50, 90, 95, 100>>

\* percentiles := []int{50, 90, 95, 99}
percentiles == <<50, 90, 95, 99>>

\* (variant: the nearest rank, rounded up and made zero-based)
PercentileIndexRank(n, p) == ((n * p + 99) \div 100) - 1

\* idx := (len(latenciesSorted) * p) / 100
PercentileIndex(n, p) == (n * p) \div 100

----------------------------------------------------------------------------
(* The requester as a function of what the network does *)

NetError == [err |-> "net", resp |-> NilResp, dur |-> 1]

\* What the j-th http call of a logical request meets when the target first
\* answers on call k, with outcome o: a transport error before that.
CallOutcome(k, o, j) == IF j < k THEN NetError ELSE o

\* exponentialBackoffGET from round i on, with the backoff and the clock
\* reading at the head of the round.
RECURSIVE BackoffGETFrom(_, _, _, _, _)
BackoffGETFrom(k, o, i, b, clk) ==
    IF ~MoreAttempts(i)
        THEN Returned(NilResp, 0, 0, 0, "exhausted")
        ELSE LET out == CallOutcome(k, o, i + 1)
                 now == clk + out.dur
             IN IF AttemptSucceeded(out)
                   THEN Returned(out.resp, Since(clk, now), 0, out.resp.Body,
                                 Nil)
                   ELSE BackoffGETFrom(k, o, i + 1, NextBackoff(b), now + b)

exponentialBackoffGET(k, o) == BackoffGETFrom(k, o, 0, InitialBackoff, 0)

\* exponentialBackoffPOST likewise; every round encodes the comment first.
RECURSIVE BackoffPOSTFrom(_, _, _, _, _, _)
BackoffPOSTFrom(c, k, o, i, b, clk) ==
    IF ~MoreAttempts(i)
        THEN Returned(NilResp, 0, 0, 0, "exhausted")
        ELSE LET commentJSON == Marshal(c)
                 out == CallOutcome(k, o, i + 1)
                 now == clk + out.dur
             IN IF commentJSON.err # Nil
                   THEN Returned(NilResp, 0, 0, 0, commentJSON.err)
                   ELSE IF AttemptSucceeded(out)
                           THEN Returned(out.resp, Since(clk, now),
                                         commentJSON.len, out.resp.Body, Nil)
                           ELSE BackoffPOSTFrom(c, k, o, i + 1, NextBackoff(b),
                                                now + b)

exponentialBackoffPOST(c, k, o) ==
    BackoffPOSTFrom(c, k, o, 0, InitialBackoff, 0)

\* The targets explored: the call that first answers (none within the cap
\* when k is MaxAttempts + 1) and the answer.
Answers(m) == Outcomes(m) \ {NetError}
FirstAnswers == 1..(MaxAttempts + 1)

GETReturns ==
    {exponentialBackoffGET(k, o) : k \in FirstAnswers, o \in Answers("GET")}
POSTReturns(c) ==
    {exponentialBackoffPOST(c, k, o) :
        k \in FirstAnswers, o \in Answers("POST")}

----------------------------------------------------------------------------
(* State *)

VARIABLES
    numRequests, threads,       \* the flags -n and -threads
    mainpc,                     \* where main is
    requestsPerThread,          \* main's local of that name
    spawned,                    \* i of main's spawning loop
    statsChan,                  \* the buffered channel, oldest message first
    received,                   \* i of main's receiving loop
    successfulGET, successfulPOST, totalBytesSent, totalBytesRecv,
    errors, latencies,          \* main's running totals
    latenciesSorted, percentileLatencies,
    pidx,                       \* position of main's loop over percentiles
    wpc,                        \* where each worker is
    iter,                       \* i of makeRequests' loop
    s,                          \* each worker's Stats
    method, comment,            \* the request of the current iteration
    attempt, backoff, start,    \* the requester's i, backoff and start
    clock,                      \* the clock as the requester reads it
    ret,                        \* what the requester returned
    openBodies,                 \* responses whose deferred Close has not run
    calls, lastCall,            \* history: http calls of the current request,
                                \*          and the outcome of the last one
    log,                        \* history: the error of each finished request
    sends                       \* history: messages each worker has sent

mainVars == <<mainpc, requestsPerThread, spawned, received, successfulGET,
              successfulPOST, totalBytesSent, totalBytesRecv, errors,
              latencies, latenciesSorted, percentileLatencies, pidx>>
totals == <<successfulGET, successfulPOST, totalBytesSent, totalBytesRecv,
            errors, latencies>>
reqVars == <<method, comment, attempt, backoff, start, clock, ret, calls,
             lastCall>>
vars == <<numRequests, threads, mainVars, statsChan, wpc, iter, s, reqVars,
          openBodies, log, sends>>

NoRet == Returned(NilResp, 0, 0, 0, Nil)
NoCall == [err |-> Nil, resp |-> NilResp, dur |-> 0]

\* flag.IntVar takes any integer: -1 stands for the negative values of -n
\* and of -threads.
Init ==
    /\ numRequests \in -1..MaxRequests
    /\ threads \in -1..MaxThreads
    /\ mainpc = "start"
    /\ requestsPerThread = 0
    /\ spawned = 0
    /\ statsChan = <<>>
    /\ received = 0
    /\ successfulGET = 0
    /\ successfulPOST = 0
    /\ totalBytesSent = 0
    /\ totalBytesRecv = 0
    /\ errors = 0
    /\ latencies = <<>>
    /\ latenciesSorted = <<>>
    /\ percentileLatencies = <<>>
    /\ pidx = 0
    /\ wpc = [w \in Workers |-> "unspawned"]
    /\ iter = [w \in Workers |-> 0]
    /\ s = [w \in Workers |-> ZeroStats]
    /\ method = [w \in Workers |-> Nil]
    /\ comment = [w \in Workers |-> NoComment]
    /\ attempt = [w \in Workers |-> 0]
    /\ backoff = [w \in Workers |-> 0]
    /\ start = [w \in Workers |-> 0]
    /\ clock = [w \in Workers |-> 0]
    /\ ret = [w \in Workers |-> NoRet]
    /\ openBodies = [w \in Workers |-> 0]
    /\ calls = [w \in Workers |-> 0]
    /\ lastCall = [w \in Workers |-> NoCall]
    /\ log = [w \in Workers |-> <<>>]
    /\ sends = [w \in Workers |-> 0]

\* The process lives until main returns or panics: the goroutines stop then.
Running == mainpc \notin {"done", "panic"}

----------------------------------------------------------------------------
(* main *)

\* statsChan := make(chan Stats, threads); requestsPerThread := numRequests / threads
\* make panics when threads is negative, the division when threads is 0.
Setup ==
    /\ mainpc = "start"
    /\ IF threads < 0 \/ threads = 0
          THEN /\ mainpc' = "panic"
               /\ UNCHANGED requestsPerThread
          ELSE /\ requestsPerThread' = RequestsPerThread(numRequests, threads)
               /\ mainpc' = "spawn"
    /\ UNCHANGED <<numRequests, threads, spawned, received, totals,
                   latenciesSorted, percentileLatencies, pidx, statsChan, wpc,
                   iter, s, reqVars, openBodies, log, sends>>

\* for i := 0; i < threads; i++ { go makeRequests(requestsPerThread, statsChan) }
Spawn ==
    /\ mainpc = "spawn"
    /\ IF MoreToSpawn(spawned, threads)
          THEN /\ wpc' = [wpc EXCEPT ![spawned + 1] = "loop"]
               /\ spawned' = spawned + 1
               /\ UNCHANGED mainpc
          ELSE /\ mainpc' = "recv"
               /\ UNCHANGED <<wpc, spawned>>
    /\ UNCHANGED <<numRequests, threads, requestsPerThread, received, totals,
                   latenciesSorted, percentileLatencies, pidx, statsChan,
                   iter, s, reqVars, openBodies, log, sends>>

Totals ==
    [SuccessfulGET |-> successfulGET, SuccessfulPOST |-> successfulPOST,
     TotalBytesSent |-> totalBytesSent, TotalBytesRecv |-> totalBytesRecv,
     Errors |-> errors, Latencies |-> latencies]

\* for i := 0; i < threads; i++ { s := <-statsChan; successfulGET += ... }
\* A receive waits for a message.
Receive ==
    /\ mainpc = "recv"
    /\ IF MoreToReceive(received, threads)
          THEN /\ statsChan # <<>>
               /\ LET m == Merge(Totals, Head(statsChan)) IN
                    /\ successfulGET' = m.SuccessfulGET
                    /\ successfulPOST' = m.SuccessfulPOST
                    /\ totalBytesSent' = m.TotalBytesSent
                    /\ totalBytesRecv' = m.TotalBytesRecv
                    /\ errors' = m.Errors
                    /\ latencies' = m.Latencies
               /\ statsChan' = Tail(statsChan)
               /\ received' = received + 1
               /\ UNCHANGED mainpc
          ELSE /\ mainpc' = "sort"
               /\ UNCHANGED <<totals, statsChan, received>>
    /\ UNCHANGED <<numRequests, threads, requestsPerThread, spawned,
                   latenciesSorted, percentileLatencies, pidx, wpc, iter, s,
                   reqVars, openBodies, log, sends>>

\* (variant: no copy, the merged slice itself is sorted)
SortInPlace ==
    /\ mainpc = "sort"
    /\ latencies' = sortDurationSlice(latencies)
    /\ latenciesSorted' = latencies'
    /\ mainpc' = "percentiles"
    /\ UNCHANGED <<numRequests, threads, requestsPerThread, spawned, received,
                   successfulGET, successfulPOST, totalBytesSent,
                   totalBytesRecv, errors, percentileLatencies, pidx,
                   statsChan, wpc, iter, s, reqVars, openBodies, log, sends>>

\* latenciesSorted := make(..); copy(latenciesSorted, latencies);
\* sortDurationSlice(latenciesSorted)
Sort ==
    /\ mainpc = "sort"
    /\ latenciesSorted' = sortDurationSlice(latencies)
    /\ mainpc' = "percentiles"
    /\ UNCHANGED <<numRequests, threads, requestsPerThread, spawned, received,
                   totals, percentileLatencies, pidx, statsChan, wpc, iter, s,
                   reqVars, openBodies, log, sends>>

\* for _, p := range percentiles { idx := ...; percentileLatencies[p] = latenciesSorted[idx] }
\* An index outside the slice panics.
Percentile ==
    /\ mainpc = "percentiles"
    /\ IF pidx < Len(percentiles)
          THEN LET p == percentiles[pidx + 1]
                   idx == PercentileIndex(Len(latenciesSorted), p)
               IN IF idx >= Len(latenciesSorted)
                     THEN /\ mainpc' = "panic"
                          /\ UNCHANGED <<percentileLatencies, pidx>>
                     ELSE /\ percentileLatencies' =
                               percentileLatencies @@
                                   (p :> latenciesSorted[idx + 1])
                          /\ pidx' = pidx + 1
                          /\ UNCHANGED mainpc
          ELSE /\ mainpc' = "print"
               /\ UNCHANGED <<percentileLatencies, pidx>>
    /\ UNCHANGED <<numRequests, threads, requestsPerThread, spawned, received,
                   totals, latenciesSorted, statsChan, wpc, iter, s, reqVars,
                   openBodies, log, sends>>

\* The fmt.Println calls, and main returns.
Report ==
    /\ mainpc = "print"
    /\ mainpc' = "done"
    /\ UNCHANGED <<numRequests, threads, requestsPerThread, spawned, received,
                   totals, latenciesSorted, percentileLatencies, pidx,
                   statsChan, wpc, iter, s, reqVars, openBodies, log, sends>>

----------------------------------------------------------------------------
(* makeRequests *)

\* The head of an iteration: the method is drawn (rand.Intn(2)), a POST
\* builds its Comment, and the requester is entered: backoff := 20ms, i := 0.
Iterate(w) ==
    /\ Running
    /\ wpc[w] = "loop"
    /\ iter[w] < requestsPerThread
    /\ \E m \in {"GET", "POST"} :
         /\ method' = [method EXCEPT ![w] = m]
         /\ IF m = "POST"
               THEN \E t \in Times :
                       comment' = [comment EXCEPT ![w] = NewComment(t)]
               ELSE comment' = [comment EXCEPT ![w] = NoComment]
    /\ backoff' = [backoff EXCEPT ![w] = InitialBackoff]
    /\ attempt' = [attempt EXCEPT ![w] = 0]
    /\ clock' = [clock EXCEPT ![w] = 0]
    /\ start' = [start EXCEPT ![w] = 0]
    /\ calls' = [calls EXCEPT ![w] = 0]
    /\ lastCall' = [lastCall EXCEPT ![w] = NoCall]
    /\ ret' = [ret EXCEPT ![w] = NoRet]
    /\ wpc' = [wpc EXCEPT ![w] = "request"]
    /\ UNCHANGED <<numRequests, threads, mainVars, statsChan, iter, s,
                   openBodies, log, sends>>

\* One round of exponentialBackoffGET's loop up to the test of err.
AttemptGET(w) ==
    /\ Running
    /\ wpc[w] = "request"
    /\ method[w] = "GET"
    /\ MoreAttempts(attempt[w])
    /\ \E o \in Outcomes("GET") :
         LET now == clock[w] + o.dur IN
         /\ start' = [start EXCEPT ![w] = clock[w]]
         /\ clock' = [clock EXCEPT ![w] = now]
         /\ calls' = [calls EXCEPT ![w] = @ + 1]
         /\ lastCall' = [lastCall EXCEPT ![w] = o]
         /\ IF AttemptSucceeded(o)
               THEN /\ ret' = [ret EXCEPT ![w] =
                                 Returned(o.resp, Since(clock[w], now), 0,
                                          o.resp.Body, Nil)]
                    /\ wpc' = [wpc EXCEPT ![w] = "returned"]
               ELSE /\ wpc' = [wpc EXCEPT ![w] = "sleep"]
                    /\ UNCHANGED ret
    /\ UNCHANGED <<numRequests, threads, mainVars, statsChan, iter, s, method,
                   comment, attempt, backoff, openBodies, log, sends>>

\* One round of exponentialBackoffPOST's loop up to the test of err: the
\* comment is encoded first, and a failure to encode returns at once.
AttemptPOST(w) ==
    /\ Running
    /\ wpc[w] = "request"
    /\ method[w] = "POST"
    /\ MoreAttempts(attempt[w])
    /\ start' = [start EXCEPT ![w] = clock[w]]
    /\ LET commentJSON == Marshal(comment[w]) IN
       IF commentJSON.err # Nil
          THEN /\ ret' = [ret EXCEPT ![w] =
                            Returned(NilResp, 0, 0, 0, commentJSON.err)]
               /\ wpc' = [wpc EXCEPT ![w] = "returned"]
               /\ UNCHANGED <<clock, calls, lastCall>>
          ELSE \E o \in Outcomes("POST") :
                 LET now == clock[w] + o.dur IN
                 /\ clock' = [clock EXCEPT ![w] = now]
                 /\ calls' = [calls EXCEPT ![w] = @ + 1]
                 /\ lastCall' = [lastCall EXCEPT ![w] = o]
                 /\ IF AttemptSucceeded(o)
                       THEN /\ ret' = [ret EXCEPT ![w] =
                                         Returned(o.resp, Since(clock[w], now),
                                                  commentJSON.len, o.resp.Body,
                                                  Nil)]
                            /\ wpc' = [wpc EXCEPT ![w] = "returned"]
                       ELSE /\ wpc' = [wpc EXCEPT ![w] = "sleep"]
                            /\ UNCHANGED ret
    /\ UNCHANGED <<numRequests, threads, mainVars, statsChan, iter, s, method,
                   comment, attempt, backoff, openBodies, log, sends>>

\* The rest of a failed round: time.Sleep(backoff); backoff *= 2, capped; i++
Sleep(w) ==
    /\ Running
    /\ wpc[w] = "sleep"
    /\ clock' = [clock EXCEPT ![w] = @ + backoff[w]]
    /\ backoff' = [backoff EXCEPT ![w] = NextBackoff(@)]
    /\ attempt' = [attempt EXCEPT ![w] = @ + 1]
    /\ wpc' = [wpc EXCEPT ![w] = "request"]
    /\ UNCHANGED <<numRequests, threads, mainVars, statsChan, iter, s, method,
                   comment, start, ret, calls, lastCall, openBodies, log, sends>>

\* The loop is over: return nil, 0, 0, 0, fmt.Errorf("exponential backoff exceeded")
Exhausted(w) ==
    /\ Running
    /\ wpc[w] = "request"
    /\ ~MoreAttempts(attempt[w])
    /\ ret' = [ret EXCEPT ![w] = Returned(NilResp, 0, 0, 0, "exhausted")]
    /\ wpc' = [wpc EXCEPT ![w] = "returned"]
    /\ UNCHANGED <<numRequests, threads, mainVars, statsChan, iter, s, method,
                   comment, attempt, backoff, start, clock, calls, lastCall,
                   openBodies, log, sends>>

\* (variant: break, leaving the loop)
Break(i) == IF i + 1 < requestsPerThread THEN requestsPerThread ELSE i + 1

\* continue, or the end of the loop body of makeRequests: i++
Continue(i) == i + 1

\* The rest of an iteration: an error is counted and the loop continues;
\* a response is counted, its Close is deferred, and the loop continues.
\* The locals of the iteration and of the requester go out of scope.
HandleResult(w) ==
    /\ Running
    /\ wpc[w] = "returned"
    /\ IF ret[w].err # Nil
          THEN /\ s' = [s EXCEPT ![StatsOf(w)] = CountError(@)]
               /\ UNCHANGED openBodies
          ELSE /\ s' = [s EXCEPT ![StatsOf(w)] =
                                CountSuccess(@, method[w], ret[w])]
               /\ openBodies' = [openBodies EXCEPT ![w] = @ + 1]
    /\ log' = [log EXCEPT ![w] = Append(@, ret[w].err)]
    /\ iter' = [iter EXCEPT ![w] = Continue(@)]
    /\ wpc' = [wpc EXCEPT ![w] = "loop"]
    /\ method' = [method EXCEPT ![w] = Nil]
    /\ comment' = [comment EXCEPT ![w] = NoComment]
    /\ attempt' = [attempt EXCEPT ![w] = 0]
    /\ backoff' = [backoff EXCEPT ![w] = 0]
    /\ start' = [start EXCEPT ![w] = 0]
    /\ clock' = [clock EXCEPT ![w] = 0]
    /\ ret' = [ret EXCEPT ![w] = NoRet]
    /\ calls' = [calls EXCEPT ![w] = 0]
    /\ lastCall' = [lastCall EXCEPT ![w] = NoCall]
    /\ UNCHANGED <<numRequests, threads, mainVars, statsChan, sends>>

\* statsChan <- s : a send waits for room in the channel's buffer.
Send(w) ==
    /\ Running
    /\ wpc[w] = "loop"
    /\ ~(iter[w] < requestsPerThread)
    /\ Len(statsChan) < Capacity(threads)
    /\ statsChan' = Append(statsChan, s[StatsOf(w)])
    /\ sends' = [sends EXCEPT ![w] = @ + 1]
    /\ wpc' = [wpc EXCEPT ![w] = "sent"]
    /\ UNCHANGED <<numRequests, threads, mainVars, iter, s, reqVars,
                   openBodies, log>>

\* makeRequests is returning: one deferred resp.Body.Close() runs.
Close(w) ==
    /\ Running
    /\ wpc[w] = "sent"
    /\ openBodies[w] > 0
    /\ openBodies' = [openBodies EXCEPT ![w] = @ - 1]
    /\ UNCHANGED <<numRequests, threads, mainVars, statsChan, wpc, iter, s,
                   reqVars, log, sends>>

\* Every deferred call has run: makeRequests has returned.
Return(w) ==
    /\ Running
    /\ wpc[w] = "sent"
    /\ openBodies[w] = 0
    /\ wpc' = [wpc EXCEPT ![w] = "done"]
    /\ UNCHANGED <<numRequests, threads, mainVars, statsChan, iter, s,
                   reqVars, openBodies, log, sends>>

----------------------------------------------------------------------------
(* Specifications *)

\* The run, any number of workers, each request round by round: main and
\* the other workers run while a worker waits in a call or in a sleep.
Next ==
    \/ Setup
    \/ Spawn
    \/ Receive
    \/ Sort
    \/ Percentile
    \/ Report
    \/ \E w \in Workers : Iterate(w)
    \/ \E w \in Workers : AttemptGET(w)
    \/ \E w \in Workers : AttemptPOST(w)
    \/ \E w \in Workers : Sleep(w)
    \/ \E w \in Workers : Exhausted(w)
    \/ \E w \in Workers : HandleResult(w)
    \/ \E w \in Workers : Send(w)
    \/ \E w \in Workers : Close(w)
    \/ \E w \in Workers : Return(w)

Spec == Init /\ [][Next]_vars

\* The same run under the scheduling of the Go runtime: main and every
\* goroutine that can take a step eventually takes one, and an http call
\* returns.
MainStep == Setup \/ Spawn \/ Receive \/ Sort \/ Percentile \/ Report

WorkerStep(w) ==
    \/ Iterate(w)
    \/ AttemptGET(w)
    \/ AttemptPOST(w)
    \/ Sleep(w)
    \/ Exhausted(w)
    \/ HandleResult(w)
    \/ Send(w)
    \/ Close(w)
    \/ Return(w)

Fairness == WF_vars(MainStep) /\ \A w \in Workers : WF_vars(WorkerStep(w))

SpecFair == Init /\ [][Next]_vars /\ Fairness

\* The run of one worker.
InitSteps == Init /\ threads = 1

SpecSteps == InitSteps /\ [][Next]_vars

\* The percentile computation on its own: main about to sort, after a run
\* of one worker whose requests were all GETs answered with 200, with the
\* latencies drawn from LatencySeqs.
LatencyValues == {10, 20, 30, 40, 50}
LatencySeqs == UNION {[1..n -> LatencyValues] : n \in 0..MaxLatencies}

StatsOfGETs(lat) ==
    [SuccessfulGET |-> Len(lat), SuccessfulPOST |-> 0, TotalBytesSent |-> 0,
     TotalBytesRecv |-> 5 * Len(lat), Errors |-> 0, Latencies |-> lat]

InitPercentiles ==
    \E lat \in LatencySeqs :
        /\ numRequests = Len(lat)
        /\ threads = 1
        /\ mainpc = "sort"
        /\ requestsPerThread = Len(lat)
        /\ spawned = 1
        /\ statsChan = <<>>
        /\ received = 1
        /\ successfulGET = Len(lat)
        /\ successfulPOST = 0
        /\ totalBytesSent = 0
        /\ totalBytesRecv = 5 * Len(lat)
        /\ errors = 0
        /\ latencies = lat
        /\ latenciesSorted = <<>>
        /\ percentileLatencies = <<>>
        /\ pidx = 0
        /\ wpc = [w \in Workers |-> IF w = 1 THEN "done" ELSE "unspawned"]
        /\ iter = [w \in Workers |-> IF w = 1 THEN Len(lat) ELSE 0]
        /\ s = [w \in Workers |-> IF w = 1 THEN StatsOfGETs(lat) ELSE ZeroStats]
        /\ method = [w \in Workers |-> Nil]
        /\ comment = [w \in Workers |-> NoComment]
        /\ attempt = [w \in Workers |-> 0]
        /\ backoff = [w \in Workers |-> 0]
        /\ start = [w \in Workers |-> 0]
        /\ clock = [w \in Workers |-> 0]
        /\ ret = [w \in Workers |-> NoRet]
        /\ openBodies = [w \in Workers |-> 0]
        /\ calls = [w \in Workers |-> 0]
        /\ lastCall = [w \in Workers |-> NoCall]
        /\ log = [w \in Workers |->
                    IF w = 1 THEN [i \in 1..Len(lat) |-> Nil] ELSE <<>>]
        /\ sends = [w \in Workers |-> IF w = 1 THEN 1 ELSE 0]

NextPercentiles ==
    \/ Sort
    \/ Percentile
    \/ Report

SpecPercentiles == InitPercentiles /\ [][NextPercentiles]_vars

\* What the rounds return is what the whole call returns for some target.
StepsAgree ==
    \A w \in Workers :
        wpc[w] = "returned" =>
            ret[w] \in (IF method[w] = "GET" THEN GETReturns
                                             ELSE POSTReturns(comment[w]))

----------------------------------------------------------------------------
(* Properties *)

Spawned == 1..threads

\* C1: a logical request never makes more than 10 http calls; a request
\* whose calls all failed ends after exactly 10 of them with the
\* "exponential backoff exceeded" error and no response.
C1_AttemptCap ==
    \A w \in Workers :
        /\ calls[w] <= 10
        /\ (wpc[w] = "returned" /\ calls[w] >= 1 /\ lastCall[w].err # Nil)
              => /\ calls[w] = 10
                 /\ ret[w] = Returned(NilResp, 0, 0, 0, "exhausted")
        /\ (wpc[w] = "returned" /\ ret[w].err = "exhausted")
              => /\ calls[w] = 10
                 /\ lastCall[w].err # Nil
                 /\ ret[w].resp = NilResp

C1_Witness ==
    \E w \in Workers :
        /\ wpc[w] = "returned"
        /\ method[w] = "POST"
        /\ calls[w] = 10
        /\ lastCall[w].err # Nil
        /\ ret[w].err = "exhausted"

SuccessStatus(code) == code \in 200..299

\* C2: a response with a non-success status is never returned by the
\* requester as a success: it is a failed attempt, followed by the backoff
\* sleep.
C2_NonSuccessIsFailure ==
    \A w \in Workers :
        (calls[w] >= 1 /\ lastCall[w].resp # NilResp
            /\ ~SuccessStatus(lastCall[w].resp.StatusCode))
        => /\ wpc[w] = "sleep"
           /\ ret[w].resp = NilResp


\* main has left its receiving loop.
Joined ==
    /\ threads >= 1
    /\ mainpc \in {"sort", "percentiles", "print", "done", "panic"}

\* C3: once all workers have reported, the merged successes and errors add
\* up to the configured number of requests.
C3_TotalsEqualRequests ==
    (threads >= 1 /\ received = threads)
        => successfulGET + successfulPOST + errors = numRequests

\* C4: a run in which no request succeeded does not crash when the
\* percentiles are computed.
C4_EmptyRunReports ==
    (Joined /\ latencies = <<>>) => mainpc # "panic"

\* The times the loop for i := 0; i < requestsPerThread; i++ runs its body:
\* none when requestsPerThread is negative.
Iterations == IF requestsPerThread < 0 THEN 0 ELSE requestsPerThread

\* C5: a worker sends one message, after all its iterations; main has
\* received one message from every worker before it sorts the latencies or
\* looks a percentile up.
C5_JoinBarrier ==
    /\ \A w \in Workers :
          /\ sends[w] <= 1
          /\ sends[w] = 1 =>
                /\ w \in Spawned
                /\ iter[w] = Iterations
                /\ Len(log[w]) = Iterations
    /\ received + Len(statsChan) = SumSeq([w \in Workers |-> sends[w]])
    /\ (threads >= 1 /\ (\/ Joined
                         \/ latenciesSorted # <<>>
                         \/ DOMAIN percentileLatencies # {}))
          => /\ received = threads
             /\ statsChan = <<>>
             /\ \A w \in Spawned : sends[w] = 1

C5_Witness ==
    /\ threads = 2
    /\ mainpc = "percentiles"
    /\ received = 2
    /\ latenciesSorted # <<>>

\* The totals main reaches when the workers' Stats arrive in the order of
\* their spawning.
RECURSIVE MergedInOrder(_)
MergedInOrder(k) ==
    IF k = 0 THEN ZeroStats ELSE Merge(MergedInOrder(k - 1), s[k])

\* C6: counters, sorted latencies and percentiles are those of the run in
\* which the Stats arrive in the order of spawning, whatever the order in
\* which they did arrive.
C6_OrderIndependent ==
    (Joined /\ mainpc # "sort") =>
        LET ref == MergedInOrder(threads)
            refSorted == sortDurationSlice(ref.Latencies)
        IN /\ successfulGET = ref.SuccessfulGET
           /\ successfulPOST = ref.SuccessfulPOST
           /\ totalBytesSent = ref.TotalBytesSent
           /\ totalBytesRecv = ref.TotalBytesRecv
           /\ errors = ref.Errors
           /\ latenciesSorted = refSorted
           /\ \A p \in DOMAIN percentileLatencies :
                 percentileLatencies[p] =
                     refSorted[PercentileIndex(Len(refSorted), p) + 1]
           /\ mainpc \in {"print", "done"} =>
                 DOMAIN percentileLatencies = {50, 90, 95, 99}

\* The second worker's Stats arrived first, and the latencies differ.
C6_Witness ==
    /\ threads = 2
    /\ mainpc = "done"
    /\ s[1].Latencies # s[2].Latencies
    /\ s[2].Latencies # <<>>
    /\ latencies = s[2].Latencies \o s[1].Latencies

RECURSIVE LatencyBag(_)
LatencyBag(k) ==
    IF k = 0 THEN EmptyBag
    ELSE SeqToBag(s[k].Latencies) (+) LatencyBag(k - 1)

\* C7: after the last receive every total is the sum of the workers' field
\* and the merged latencies are the workers' latencies, as a multiset.
C7_ExactSums ==
    (threads >= 1 /\ received = threads) =>
        /\ successfulGET = SumSeq([w \in Spawned |-> s[w].SuccessfulGET])
        /\ successfulPOST = SumSeq([w \in Spawned |-> s[w].SuccessfulPOST])
        /\ totalBytesSent = SumSeq([w \in Spawned |-> s[w].TotalBytesSent])
        /\ totalBytesRecv = SumSeq([w \in Spawned |-> s[w].TotalBytesRecv])
        /\ errors = SumSeq([w \in Spawned |-> s[w].Errors])
        /\ SeqToBag(latencies) = LatencyBag(threads)

\* Two workers, a POST answered, a GET answered: bytes and latencies of both.
C7_Witness ==
    /\ threads = 2
    /\ received = 2
    /\ s[1].SuccessfulPOST = 1
    /\ s[2].SuccessfulGET = 1
    /\ totalBytesSent = 102
    /\ totalBytesRecv = 5
    /\ Len(latencies) = 2

\* C8: a worker whose requests all failed has counted each as an error and
\* nothing else, runs all its iterations and sends that Stats.
C8_WorkerResilience ==
    /\ \A w \in Workers :
          (\A k \in DOMAIN log[w] : log[w][k] # Nil) =>
              /\ s[w] = [ZeroStats EXCEPT !.Errors = Len(log[w])]
              /\ wpc[w] \in {"sent", "done"} =>
                    /\ s[w].Errors = Iterations
                    /\ sends[w] = 1
    /\ \A i \in DOMAIN statsChan :
          \E w \in Spawned : sends[w] = 1 /\ statsChan[i] = s[w]

C8_Witness ==
    \E w \in Workers :
        /\ wpc[w] = "sent"
        /\ requestsPerThread = 2
        /\ log[w] = <<"exhausted", "marshal">>
        /\ statsChan = <<[ZeroStats EXCEPT !.Errors = 2]>>

\* C9: the requester returns at the first call that succeeds, the k-th,
\* with that call's response, and the latency is the time that call took.
C9_FirstSuccess ==
    \A w \in Workers :
        /\ (calls[w] >= 1 /\ lastCall[w].err = Nil)
              => (wpc[w] = "returned" /\ ret[w].err = Nil)
        /\ (wpc[w] = "returned" /\ ret[w].err = Nil)
              => /\ calls[w] \in 1..10
                 /\ calls[w] = attempt[w] + 1
                 /\ lastCall[w].err = Nil
                 /\ ret[w].resp = lastCall[w].resp
                 /\ ret[w].latency = lastCall[w].dur

C9_Witness ==
    \E w \in Workers :
        /\ wpc[w] = "returned"
        /\ ret[w].err = Nil
        /\ calls[w] = 10
        /\ ret[w].latency = 2

\* C10: the delay slept after the i-th failed call is min(20 * 2^(i-1), 5000)
\* ms; during a request the delay is between 20 ms and 5 s, and it is
\* 20 ms when the request starts.
C10_BackoffDelays ==
    \A w \in Workers :
        /\ wpc[w] = "sleep" =>
              backoff[w] = Min(20 * Pow2(calls[w] - 1), 5000)
        /\ wpc[w] \in {"request", "sleep"} =>
              (backoff[w] >= 20 /\ backoff[w] <= 5000)
        /\ (wpc[w] = "request" /\ calls[w] = 0) => backoff[w] = 20

\* The tenth sleep of a worker's second request.
C10_Witness ==
    \E w \in Workers :
        /\ iter[w] = 1
        /\ wpc[w] = "sleep"
        /\ calls[w] = 10
        /\ backoff[w] = 5000


Ascending(q) == \A i \in 1..(Len(q) - 1) : q[i] <= q[i + 1]

\* C11: each percentile reported for a non-empty latency sequence is the
\* element at zero-based index floor(n * p / 100) of the sequence sorted
\* ascending; 10..50 ms gives 30 ms at p = 50 and 50 ms at p = 90.
C11_PercentileLookup ==
    (mainpc \in {"percentiles", "print", "done"} /\ Len(latencies) > 0) =>
        /\ Ascending(latenciesSorted)
        /\ SeqToBag(latenciesSorted) = SeqToBag(latencies)
        /\ \A p \in DOMAIN percentileLatencies :
              percentileLatencies[p] =
                  latenciesSorted[((Len(latencies) * p) \div 100) + 1]
        /\ mainpc \in {"print", "done"} =>
              /\ DOMAIN percentileLatencies = {50, 90, 95, 99}
              /\ SeqToBag(latencies) = SeqToBag(<<10, 20, 30, 40, 50>>) =>
                    /\ percentileLatencies[50] = 30
                    /\ percentileLatencies[90] = 50

C11_Witness ==
    /\ mainpc = "done"
    /\ latencies = <<50, 10, 40, 20, 30>>
    /\ percentileLatencies[50] = 30
    /\ percentileLatencies[90] = 50


\* C12: every response a worker acquired is released by the time the worker
\* has handed its Stats off, and so by the time the run ends.
C12_ReleasedAtHandoff ==
    \A w \in Workers :
        /\ sends[w] = 1 => openBodies[w] = 0
        /\ mainpc = "done" => openBodies[w] = 0

\* The comment of the current POST cannot be encoded.
Unencodable(w) == method[w] = "POST" /\ comment[w].Time.year > 9999

\* C13: a POST whose comment cannot be encoded makes no http call, sleeps no
\* backoff and runs no further round; it returns the encoding error with no
\* response, and the worker counts it as one error.
C13_SerializationAborts ==
    /\ [](\A w \in Workers :
          /\ (wpc[w] \in {"request", "sleep", "returned"} /\ Unencodable(w))
                => /\ wpc[w] # "sleep"
                   /\ calls[w] = 0
                   /\ attempt[w] = 0
                   /\ clock[w] = 0
          /\ (wpc[w] = "returned" /\ Unencodable(w))
                => ret[w] = Returned(NilResp, 0, 0, 0, "marshal"))
    /\ [][\A w \in Workers :
            (wpc[w] = "returned" /\ ret[w].err = "marshal" /\ wpc'[w] = "loop")
                => /\ s'[w] = [s[w] EXCEPT !.Errors = @ + 1]
                   /\ iter'[w] = iter[w] + 1
                   /\ log'[w] = Append(log[w], "marshal")]_vars

C13_Witness ==
    \E w \in Workers :
        /\ wpc[w] = "loop"
        /\ log[w] = <<Nil, "marshal">>
        /\ s[w].Errors = 1
        /\ s[w].SuccessfulPOST = 1


\* Every spawned worker has run all its iterations and sent its Stats, and
\* main has received them all.
AllReported ==
    /\ received = threads
    /\ \A w \in Spawned :
          /\ sends[w] = 1
          /\ iter[w] = Iterations
          /\ Len(log[w]) = Iterations

\* C14: with one worker or more, under fair scheduling, every worker
\* eventually completes its iterations and sends its Stats, and main
\* eventually has received a message from each.
C14_AllWorkersReport == (threads >= 1) ~> AllReported

C14_Witness ==
    /\ threads = 2
    /\ AllReported
    /\ requestsPerThread = 1
    /\ log[1] = <<"exhausted">>
    /\ log[2] = <<Nil>>


\* C15: a step of a worker leaves the Stats of the other workers and
\* main's totals as they are; the message a worker sends is its Stats, and
\* the worker does not change its Stats after the send.
C15_WorkerIsolation ==
    [][\A w \in Workers :
         /\ (wpc[w] # "unspawned" /\ wpc'[w] # wpc[w])
               => /\ \A v \in Workers \ {w} : s'[v] = s[v]
                  /\ totals' = totals
         /\ sends[w] = 1 => s'[w] = s[w]
         /\ sends'[w] # sends[w]
               => /\ statsChan' = Append(statsChan, s[w])
                  /\ s'[w] = s[w]]_vars

\* The first worker's Stats is merged while the second is still counting.
C15_Witness ==
    /\ threads = 2
    /\ wpc[1] = "done"
    /\ received = 1
    /\ successfulGET = 1
    /\ errors = 0
    /\ wpc[2] = "loop"
    /\ sends[2] = 0
    /\ s[2].Errors = 1

\* C16: a failed iteration adds one to Errors and changes nothing else of
\* the Stats; a successful one adds one to the counter of its method,
\* appends its latency, adds its bytes and leaves Errors (and, for a GET,
\* TotalBytesSent) as it is.
C16_IterationEffect ==
    [][\A w \in Workers :
         (wpc[w] = "returned" /\ wpc'[w] = "loop") =>
            IF ret[w].err # Nil
               THEN /\ s'[w].Errors = s[w].Errors + 1
                    /\ s'[w].SuccessfulGET = s[w].SuccessfulGET
                    /\ s'[w].SuccessfulPOST = s[w].SuccessfulPOST
                    /\ s'[w].TotalBytesSent = s[w].TotalBytesSent
                    /\ s'[w].TotalBytesRecv = s[w].TotalBytesRecv
                    /\ s'[w].Latencies = s[w].Latencies
               ELSE /\ s'[w].Errors = s[w].Errors
                    /\ s'[w].Latencies = Append(s[w].Latencies, ret[w].latency)
                    /\ s'[w].TotalBytesRecv =
                          s[w].TotalBytesRecv + ret[w].bytesRecv
                    /\ s'[w].SuccessfulGET + s'[w].SuccessfulPOST =
                          s[w].SuccessfulGET + s[w].SuccessfulPOST + 1
                    /\ IF method[w] = "GET"
                          THEN /\ s'[w].SuccessfulGET = s[w].SuccessfulGET + 1
                               /\ s'[w].TotalBytesSent = s[w].TotalBytesSent
                          ELSE /\ s'[w].SuccessfulPOST = s[w].SuccessfulPOST + 1
                               /\ s'[w].TotalBytesSent =
                                     s[w].TotalBytesSent + ret[w].bytesSent]_vars

\* A failed iteration after a POST answered, then a GET answered.
C16_Witness ==
    \E w \in Workers :
        /\ wpc[w] = "loop"
        /\ log[w] = <<Nil, "exhausted">>
        /\ s[w].SuccessfulPOST = 1
        /\ s[w].TotalBytesSent = 102
        /\ s[w].Errors = 1

\* C17: a worker has as many latencies as successes, and its successes and
\* errors add up to the iterations it has completed; the merged latencies
\* are as many as the merged successes.
C17_CountsAgree ==
    /\ \A w \in Workers :
          /\ Len(s[w].Latencies) = s[w].SuccessfulGET + s[w].SuccessfulPOST
          /\ s[w].SuccessfulGET + s[w].SuccessfulPOST + s[w].Errors = iter[w]
          /\ Len(log[w]) = iter[w]
    /\ Len(latencies) = successfulGET + successfulPOST

C17_Witness ==
    /\ threads = 1
    /\ received = 1
    /\ iter[1] = 2
    /\ s[1].SuccessfulPOST = 1
    /\ s[1].Errors = 1
    /\ Len(latencies) = 1
    /\ successfulPOST = 1

\* C18: the channel (made when threads is not negative) never holds more
\* messages than there are workers, and a worker that has run its
\* iterations can send at once.
C18_SendNeverBlocks ==
    /\ threads >= 0 => Len(statsChan) <= threads
    /\ \A w \in Workers :
          (Running /\ wpc[w] = "loop" /\ ~(iter[w] < requestsPerThread))
              => ENABLED Send(w)

\* Both workers have sent and returned before main starts to receive.
C18_Witness ==
    /\ threads = 2
    /\ mainpc = "spawn"
    /\ received = 0
    /\ Len(statsChan) = 2
    /\ wpc[1] = "done"
    /\ wpc[2] = "done"


\* C19: with at least one merged latency, the index computed for each of
\* the reported percentiles lies within the sorted slice, and the lookup
\* does not panic.
C19_IndexInRange ==
    Len(latencies) >= 1 =>
        /\ mainpc # "panic"
        /\ mainpc \in {"percentiles", "print", "done"} =>
              /\ Len(latenciesSorted) = Len(latencies)
              /\ \A i \in 1..Len(percentiles) :
                    /\ 0 <= PercentileIndex(Len(latenciesSorted), percentiles[i])
                    /\ PercentileIndex(Len(latenciesSorted), percentiles[i])
                          <= Len(latenciesSorted) - 1
        /\ mainpc \in {"print", "done"} =>
              DOMAIN percentileLatencies = {percentiles[i] : i \in 1..Len(percentiles)}

\* Two latencies: every percentile reads the last element of the slice.
C19_Witness ==
    /\ mainpc = "percentiles"
    /\ pidx = Len(percentiles)
    /\ latencies = <<20, 10>>
    /\ PercentileIndex(Len(latenciesSorted), 50) = Len(latenciesSorted) - 1
    /\ percentileLatencies[50] = 20
    /\ percentileLatencies[99] = 20

\* C20: the reported percentiles are monotone, each is one of the merged
\* latencies, the sorted slice is a permutation of the merged slice, and
\* the merged slice keeps its order.
C20_PercentilesMonotone ==
    (mainpc \in {"percentiles", "print", "done"} /\ Len(latencies) >= 1) =>
        /\ SeqToBag(latenciesSorted) = SeqToBag(latencies)
        /\ latencies = s[1].Latencies
        /\ \A p \in DOMAIN percentileLatencies :
              /\ \E i \in 1..Len(latencies) :
                    latencies[i] = percentileLatencies[p]
              /\ \A q \in DOMAIN percentileLatencies :
                    p <= q => percentileLatencies[p] <= percentileLatencies[q]
        /\ mainpc \in {"print", "done"} =>
              /\ percentileLatencies[50] <= percentileLatencies[90]
              /\ percentileLatencies[90] <= percentileLatencies[95]
              /\ percentileLatencies[95] <= percentileLatencies[99]

C20_Witness ==
    /\ mainpc = "done"
    /\ latencies = <<40, 10, 30, 20>>
    /\ latenciesSorted = <<10, 20, 30, 40>>
    /\ percentileLatencies[50] = 30
    /\ percentileLatencies[99] = 40

====
